---- MODULE Spec2Model ----
(***************************************************************************)
(* Model of the test-file fixer scripts (fix-test-files.py and the         *)
(* stand-alone fix_*.py scripts).                                          *)
(*                                                                         *)
(* A document is a sequence of tokens.  A token is a piece of the          *)
(* document's text, written as the TLA+ string of that text: joining the   *)
(* tokens of a document gives the text of the file.  The text is cut so    *)
(* that every delimiter character { } [ ] ( ), every newline and every     *)
(* run of blanks is a token of its own; the regular expressions of the     *)
(* source are matched token by token with the same left-to-right,          *)
(* leftmost-match semantics as Python's re module.                         *)
(***************************************************************************)
EXTENDS Integers, Sequences, FiniteSets, TLC

(***************************************************************************)
(* Whitespace tokens.                                                      *)
(***************************************************************************)
NL == "\n"
SP1 == " "
SP2 == "  "
SP4 == "    "
SP6 == "      "
SP8 == "        "
SP10 == "          "
SP12 == "            "
SP14 == "              "

\* the backquote character (a TLA+ string cannot hold it)
BQ == "<backquote>"

\* the tokens matched by \s
Space == {NL, SP1, SP2, SP4, SP6, SP8, SP10, SP12, SP14}

\* the tokens matched by \w+ (the words used in the modelled documents)
WordTokens == {"user", "admin"}

\* the tokens whose text contains a single quote ' (excluded by [^']+)
QuoteTokens ==
    {"'", "type: 'root',", "type: 'paragraph',", " type: 'text', text: ",
     " type: 'text', text ", "format: '',", "format: '' as const,",
     "collection: 'users',", "password: 'test123',", "'user'", " 'Test',",
     " 'Another',", "lastName: 'User',", "x from 'y'", " from 'y'",
     "email: 'a@b.c',", " type: 'block', "}

(***************************************************************************)
(* Regular expressions.  A pattern is a sequence of items; Ends gives the  *)
(* set of positions at which a match of the pattern that starts at one of  *)
(* the positions P can end (all the ways the backtracking matcher can      *)
(* match).                                                                 *)
(***************************************************************************)
Lit(t) == [k |-> "lit", t |-> t]
Lits(ts) == [i \in 1..Len(ts) |-> Lit(ts[i])]
ClsPlus(C) == [k |-> "cls+", in |-> C]
ClsStar(C) == [k |-> "cls*", in |-> C]
NotPlus(X) == [k |-> "not+", ex |-> X]
Opt(p) == [k |-> "opt", p |-> p]
Plus(p) == [k |-> "plus", p |-> p]
WsPlus == ClsPlus(Space)
WsStar == ClsStar(Space)

Max(S) == CHOOSE x \in S : \A y \in S : y <= x

Min(S) == CHOOSE x \in S : \A y \in S : x <= y

\* the first position at or after p whose token is not accepted by item it
RunEnd(it, s, p) ==
    Min({q \in p..Len(s) :
            IF it.k = "not+" THEN s[q] \in it.ex ELSE s[q] \notin it.in}
        \cup {Len(s) + 1})

RECURSIVE Ends(_, _, _)
RECURSIVE ItemEnds(_, _, _)
ItemEnds(it, s, p) ==
    CASE it.k = "lit" -> IF p <= Len(s) /\ s[p] = it.t THEN {p + 1} ELSE {}
      [] it.k \in {"cls+", "not+"} -> (p + 1)..RunEnd(it, s, p)
      [] it.k = "cls*" -> p..RunEnd(it, s, p)
      [] it.k = "opt" -> {p} \cup Ends(it.p, s, {p})
      [] it.k = "plus" ->
            LET one == Ends(it.p, s, {p})
            IN one \cup UNION {ItemEnds(it, s, q) : q \in one \ {p}}

Ends(pat, s, P) ==
    IF pat = <<>> \/ P = {} THEN P
    ELSE Ends(Tail(pat), s, UNION {ItemEnds(Head(pat), s, p) : p \in P})

RECURSIVE MatchAt(_, _, _)
\* A regular expression with groups is a sequence of parts.  MatchAt is the
\* match at position p: <<p, e1, ..., en>>, part i matching [e(i-1), ei),
\* or <<>> when the expression does not match at p.  Quantifiers are
\* greedy: of the ends of a part that let the rest match, the last is taken.
MatchAt(parts, s, p) ==
    IF parts = <<>> THEN <<p>>
    ELSE LET cands == {e \in Ends(Head(parts), s, {p}) :
                          MatchAt(Tail(parts), s, e) # <<>>}
         IN IF cands = {} THEN <<>>
            ELSE <<p>> \o MatchAt(Tail(parts), s, Max(cands))

Last(m) == m[Len(m)]

\* the matches of the expression at the positions of s
Matches(parts, s) == {MatchAt(parts, s, p) : p \in 1..Len(s)} \ {<<>>}

\* re.search from position p, given the matches ms of the expression: the
\* leftmost match, or <<>>
SearchIn(ms, p) ==
    LET after == {m \in ms : m[1] >= p}
    IN IF after = {} THEN <<>>
       ELSE CHOOSE m \in after : \A o \in after : m[1] <= o[1]

Search(parts, s, p) == SearchIn(Matches(parts, s), p)

\* FindFrom stopping at the first match (re.sub with count=1)
FindFirst(ms, p) ==
    LET m == SearchIn(ms, p)
    IN IF m = <<>> THEN <<>> ELSE <<m>>

RECURSIVE FindFrom(_, _)
\* the matches among ms met from position p on, each after the end of the
\* one before
FindFrom(ms, p) ==
    LET m == SearchIn(ms, p)
    IN IF m = <<>> THEN <<>> ELSE <<m>> \o FindFrom(ms, Last(m))

\* the non-overlapping matches re.sub replaces, left to right
FindAll(parts, s, p) == FindFrom(Matches(parts, s), p)

RECURSIVE Splice(_, _, _, _, _)
\* the text of s with match ms[j] replaced by reps[j], for j >= i
Splice(s, ms, reps, i, pos) ==
    IF i > Len(ms) THEN SubSeq(s, pos, Len(s))
    ELSE SubSeq(s, pos, ms[i][1] - 1) \o reps[i]
             \o Splice(s, ms, reps, i + 1, Last(ms[i]))

\* the text matched by parts a..b of match m
Span(s, m, a, b) == SubSeq(s, m[a], m[b + 1] - 1)

\* re.sub on s: ms the matches it replaces, reps[j] the replacement that the
\* function given to it returns for ms[j]
ReSub(s, ms, reps) ==
    IF ms = <<>> THEN s ELSE Splice(s, ms, reps, 1, 1)

\* str.replace(old, new)
StrReplace(s, old, new) ==
    LET ms == FindAll(<<Lits(old)>>, s, 1)
    IN IF ms = <<>> THEN s
       ELSE Splice(s, ms, [j \in 1..Len(ms) |-> new], 1, 1)

\* 'x in s' for a text x that is one token
Contains(s, t) == \E i \in 1..Len(s) : s[i] = t

(***************************************************************************)
(* fix-test-files.py: class TestFileFixer.                                 *)
(***************************************************************************)
RootFields(ws, fmt) ==
    <<"direction: null,">> \o ws \o <<fmt>> \o ws \o <<"indent: 0,">>

\* the text of helper_function
helper_function ==
    <<NL, "// Helper for creating valid Lexical content", NL,
      "const ", "createLexicalContent", " = ", "(", "text: string", ")",
      " => ", "(", "{", NL,
      SP2, "root: ", "{", NL,
      SP4, "type: 'root',", NL,
      SP4, "children: ", "[", NL,
      SP6, "{", NL,
      SP8, "type: 'paragraph',", NL,
      SP8, "version: 1,", NL,
      SP8, "children: ", "[", "{", " type: 'text', text ", "}", "]", ",", NL,
      SP8>> \o RootFields(<<NL, SP8>>, "format: '' as const,") \o <<NL,
      SP6, "}", ",", NL,
      SP4, "]", ",", NL,
      SP4>> \o RootFields(<<NL, SP4>>, "format: '' as const,") \o <<NL,
      SP4, "version: 1,", NL,
      SP2, "}", ",", NL,
      "}", ")", NL>>

\* r"(import .+\n)+"
ImportPattern == << <<Plus(<<Lit("import "), NotPlus({NL}), Lit(NL)>>)>> >>

\* import_end.end() as a number of tokens, or -1 when re.search finds nothing
ImportEnd(content) ==
    LET m == Search(ImportPattern, content, 1)
    IN IF m = <<>> THEN -1 ELSE Last(m) - 1

\* the condition under which add_lexical_helper inserts the helper
HelperInserted(content) ==
    /\ ~Contains(content, "createLexicalContent")
    /\ ImportEnd(content) # -1

add_lexical_helper(content) ==
    IF HelperInserted(content)
    THEN LET insert_pos == ImportEnd(content)
         IN SubSeq(content, 1, insert_pos) \o helper_function
                \o SubSeq(content, insert_pos + 1, Len(content))
    ELSE content

\* pattern1 of fix_user_creation; group 1 is parts 1-3 (up to 'data: {',
\* [^}]+, '},'), part 4 is \s+, group 2 is part 5
DraftPattern ==
    << Lits(<<"await payload.create", "(", "{">>) \o <<WsPlus>>
           \o Lits(<<"collection: 'users',">>) \o <<WsPlus>>
           \o Lits(<<"data: ", "{">>),
       <<NotPlus({"}"})>>,
       Lits(<<"}", ",">>),
       <<WsPlus>>,
       Lits(<<"}", ")">>) >>

add_draft(s, m) ==
    Span(s, m, 1, 3) \o <<NL, SP6, "draft: false,", NL, SP4>>
        \o Span(s, m, 5, 5)

RolesField == <<"roles: ", "[", "'user'", "]", ",">>

\* the email / password / roles pattern for the address prefix pre
UserPattern(pre) ==
    << Lits(<<"email: ", BQ, pre>>) \o <<ClsPlus(WordTokens)>>
           \o Lits(<<"-$", "{", "Date.now", "(", ")", "}", "@example.com", BQ,
                     ",">>)
           \o <<WsPlus>> \o Lits(<<"password: 'test123',">>) \o <<WsPlus>>
           \o Lits(RolesField) >>

\* the lambda of Fix 2 with the first name and the indentation it inserts
AddNames(g0, first, ind) ==
    StrReplace(
        StrReplace(g0, RolesField,
                   <<"firstName:", first, NL, ind, "lastName: 'User',", NL, ind,
                     "password: 'test123',", NL, ind>> \o RolesField),
        <<"password: 'test123',", NL, ind, "firstName:">>, <<"firstName:">>)

add_test_names(s, m) == AddNames(Span(s, m, 1, 1), " 'Test',", SP8)

add_another_names(s, m) == AddNames(Span(s, m, 1, 1), " 'Another',", SP10)

fix_user_creation(content) ==
    LET m1 == FindAll(DraftPattern, content, 1)
        c1 == ReSub(content, m1, [j \in DOMAIN m1 |-> add_draft(content, m1[j])])
        m2 == FindAll(UserPattern("test-"), c1, 1)
        c2 == ReSub(c1, m2, [j \in DOMAIN m2 |-> add_test_names(c1, m2[j])])
        m3 == FindAll(UserPattern("another-"), c2, 1)
    IN ReSub(c2, m3, [j \in DOMAIN m3 |-> add_another_names(c2, m3[j])])

\* {type: 'paragraph', version: 1, children: [...],}, of the root patterns
ParagraphItems ==
    Lits(<<"{">>) \o <<WsStar>> \o Lits(<<"type: 'paragraph',">>) \o <<WsStar>>
        \o Lits(<<"version: 1,">>) \o <<WsStar>> \o Lits(<<"children: ", "[">>)
        \o <<NotPlus({"]"})>> \o Lits(<<"]", ",">>) \o <<WsStar>>
        \o Lits(<<"}", ",">>) \o <<WsStar>>

ClosingBraces == Lits(<<"}">>) \o <<WsStar>> \o Lits(<<"}">>)

\* pattern of fix_root_structures; group 1 is parts 1-3 ('children: [', the
\* paragraph, '],'), part 4 is \s*, group 2 is part 5
RootPattern ==
    << Lits(<<"children: ", "[">>),
       <<WsStar>> \o ParagraphItems,
       Lits(<<"]", ",">>),
       <<WsStar>>,
       ClosingBraces >>

\* pattern2 of fix_root_structures, with the same parts
RootPattern2 ==
    << Lits(<<"children: ", "[">>),
       <<WsStar, Plus(ParagraphItems)>>,
       Lits(<<"]", ",">>),
       <<WsStar>>,
       ClosingBraces >>

\* add_root_properties without the version field
add_root_properties_no_version(s, m) ==
    Span(s, m, 1, 3) \o <<NL, SP14>> \o RootFields(<<NL, SP14>>, "format: '',")
        \o <<NL, SP12>> \o Span(s, m, 5, 5)

add_root_properties(s, m) ==
    Span(s, m, 1, 3) \o <<NL, SP14>> \o RootFields(<<NL, SP14>>, "format: '',")
        \o <<NL, SP14, "version: 1,", NL, SP12>> \o Span(s, m, 5, 5)

fix_root_structures(content) ==
    LET m1 == FindAll(RootPattern, content, 1)
        c1 == ReSub(content, m1,
                    [j \in DOMAIN m1 |-> add_root_properties(content, m1[j])])
        m2 == FindAll(RootPattern2, c1, 1)
    IN ReSub(c1, m2, [j \in DOMAIN m2 |-> add_root_properties(c1, m2[j])])

\* (?:direction: null,\s+format: '',\s+indent: 0,\s+version: 1,\s+)?
OptFields ==
    Opt(Lits(<<"direction: null,">>) \o <<WsPlus>> \o Lits(<<"format: '',">>)
            \o <<WsPlus>> \o Lits(<<"indent: 0,">>) \o <<WsPlus>>
            \o Lits(<<"version: 1,">>) \o <<WsPlus>>)

\* pattern of fix_lexical_content; parts: up to the quote, group 1, the rest
LexicalPattern ==
    << Lits(<<"content: ", "{">>) \o <<WsPlus>> \o Lits(<<"root: ", "{">>)
           \o <<WsPlus>> \o Lits(<<"type: 'root',">>) \o <<WsPlus>>
           \o Lits(<<"children: ", "[">>) \o <<WsPlus>> \o Lits(<<"{">>)
           \o <<WsPlus>> \o Lits(<<"type: 'paragraph',">>) \o <<WsPlus>>
           \o Lits(<<"version: 1,">>) \o <<WsPlus>>
           \o Lits(<<"children: ", "[", "{", " type: 'text', text: ", "'">>),
       <<NotPlus(QuoteTokens)>>,
       Lits(<<"'", SP1, "}", "]", ",">>) \o <<WsPlus, OptFields>>
           \o Lits(<<"}", ",">>) \o <<WsPlus>> \o Lits(<<"]", ",">>)
           \o <<WsPlus, OptFields>> \o Lits(<<"}", ",">>) \o <<WsPlus>>
           \o Lits(<<"}", ",">>) >>

\* replace_content without the closing parenthesis of the call
replace_content_unclosed(s, m) ==
    <<"content: ", "createLexicalContent", "(", "'">> \o Span(s, m, 2, 2)
        \o <<"'", ",">>

replace_content(s, m) ==
    <<"content: ", "createLexicalContent", "(", "'">> \o Span(s, m, 2, 2)
        \o <<"'", ")", ",">>

fix_lexical_content(content) ==
    LET ms == FindAll(LexicalPattern, content, 1)
    IN ReSub(content, ms, [j \in DOMAIN ms |-> replace_content(content, ms[j])])

(***************************************************************************)
(* fix_blogs_content.py and fix_user_creation.py: the rewrite each script  *)
(* applies to the text of a file.                                          *)
(***************************************************************************)
\* pattern of fix_blogs_content.py; group 1 is parts 1-3 (up to
\* 'children: [', [^\]]+, '],\s*'), part 4 is the closing brace
BlogsPattern ==
    << Lits(<<"root: ", "{">>) \o <<WsStar>> \o Lits(<<"type: 'root',">>)
           \o <<WsStar>> \o Lits(<<"children: ", "[">>),
       <<NotPlus({"]"})>>,
       Lits(<<"]", ",">>) \o <<WsStar>>,
       Lits(<<"}">>) >>

replacement(s, m) ==
    Span(s, m, 1, 3) \o RootFields(<<NL, SP14>>, "format: '',")
        \o <<NL, SP14, "version: 1,", NL, SP12, "}">>

fix_blogs_content(content) ==
    LET ms == FindAll(BlogsPattern, content, 1)
    IN ReSub(content, ms, [j \in DOMAIN ms |-> replacement(content, ms[j])])

\* pattern of fix_user_creation.py; group 1 is parts 1-3
DraftRemovalPattern ==
    << Lits(<<"collection: 'users',">>) \o <<WsStar>> \o Lits(<<"data: ", "{">>),
       <<NotPlus({"}"})>>,
       Lits(<<"}", ",">>),
       <<WsStar>> \o Lits(<<"draft: false,">>) \o <<WsStar>> \o Lits(<<"}">>) >>

remove_draft(s, m) == Span(s, m, 1, 3) \o <<NL, SP6, "}">>

fix_draft_removal(content) ==
    LET ms == FindAll(DraftRemovalPattern, content, 1)
    IN ReSub(content, ms, [j \in DOMAIN ms |-> remove_draft(content, ms[j])])

(***************************************************************************)
(* The input documents: an import header followed by one or two fixture    *)
(* sites, in the shapes the patterns of the scripts are written for and    *)
(* in nearby shapes.                                                       *)
(***************************************************************************)
MaxImports == 2
MaxParagraphs == 2

ImportLine == <<"import ", "x from 'y'", NL>>

MultiLineImport ==
    <<"import ", "{", NL, SP2, "x", ",", NL, "}", " from 'y'", NL>>

RECURSIVE Imports(_)
Imports(n) == IF n = 0 THEN <<>> ELSE ImportLine \o Imports(n - 1)

Headers ==
    {Imports(n) : n \in 0..MaxImports}
        \cup {ImportLine \o <<NL>> \o ImportLine, MultiLineImport,
              ImportLine \o helper_function}

\* the text payloads of the fixtures
Texts == {<<"Hello">>, <<"(", "Hi", ")", SP1, "[", "1", "]">>}

\* payload.create({collection: 'users', data: {...},}) around the fields
UserCall(fields, tail) ==
    <<SP4, "await payload.create", "(", "{", NL,
      SP6, "collection: 'users',", NL,
      SP6, "data: ", "{">> \o fields \o <<NL,
      SP6, "}", ",">> \o tail \o <<NL,
      SP4, "}", ")", NL>>

\* email (a template literal), password and roles, indented by ind
TemplateUser(pre, word, ind) ==
    <<NL, ind, "email: ", BQ, pre, word, "-$", "{", "Date.now", "(", ")", "}",
      "@example.com", BQ, ",", NL,
      ind, "password: 'test123',", NL, ind>> \o RolesField

PlainUser == <<NL, SP8, "email: 'a@b.c',", NL, SP8, "password: 'test123',">>

\* a field whose string value holds the text }, })
NoteUser ==
    <<NL, SP8, "note: ", "'", "see", SP1, "}", ",", SP1, "}", ")", "'", ",">>
        \o PlainUser

FieldLines(ind, fmt) ==
    <<NL, ind>> \o RootFields(<<NL, ind>>, fmt)

RECURSIVE Paragraphs(_, _, _)
\* n paragraph objects; inner: the paragraph carries direction/format/indent
Paragraphs(n, text, inner) ==
    IF n = 0 THEN <<>>
    ELSE <<NL, SP10, "{", NL,
           SP12, "type: 'paragraph',", NL,
           SP12, "version: 1,", NL,
           SP12, "children: ", "[", "{", " type: 'text', text: ", "'">>
             \o text \o <<"'", SP1, "}", "]", ",">>
             \o (IF inner THEN FieldLines(SP12, "format: '',") ELSE <<>>)
             \o <<NL, SP10, "}", ",">> \o Paragraphs(n - 1, text, inner)

\* content: { root: {...} }: n paragraphs; fields: where the root carries
\* direction, format, indent and version ("none", "after" or "before" its
\* children, or "paragraph": only the paragraphs carry fields); comma: the
\* closing braces are followed by commas
RootSite(n, text, fields, comma) ==
    LET all == FieldLines(SP8, "format: '',") \o <<NL, SP8, "version: 1,">>
        c == IF comma THEN <<",">> ELSE <<>>
    IN <<SP4, "content: ", "{", NL,
         SP6, "root: ", "{">>
         \o (IF fields = "before" THEN all ELSE <<>>) \o <<NL,
         SP8, "type: 'root',", NL,
         SP8, "children: ", "[">> \o Paragraphs(n, text, fields = "paragraph")
         \o <<NL, SP8, "]", ",">>
         \o (IF fields = "after" THEN all ELSE <<>>) \o <<NL,
         SP6, "}">> \o c \o <<NL,
         SP4, "}", ",", NL>>

RootSites ==
    {RootSite(n, <<"Hello">>, f, c) :
        n \in 1..MaxParagraphs, f \in {"none", "after", "before", "paragraph"},
        c \in BOOLEAN}
        \cup {RootSite(1, t, "none", c) : t \in Texts, c \in BOOLEAN}

\* a users document whose data holds a content fixture
UserContent ==
    LET r == RootSite(1, <<"Hello">>, "none", TRUE)
    IN UserCall(<<NL>> \o SubSeq(r, 1, Len(r) - 1), <<>>)

CallSite ==
    <<SP4, "content: ", "createLexicalContent", "(", "'", "Hello", "'", ")",
      ",", NL>>

UserSites ==
    {UserCall(TemplateUser("test-", "user", ind), <<>>) : ind \in {SP6, SP8}}
        \cup {UserCall(TemplateUser("another-", "admin", ind), <<>>) :
                ind \in {SP8, SP10}}
        \cup {UserCall(PlainUser, t) : t \in {<<>>, <<NL, SP6, "draft: false,">>}}
        \cup {UserCall(NoteUser, <<>>), UserContent}

Sites == RootSites \cup UserSites \cup {CallSite}

\* the root sites that appear in pairs
PairSites ==
    {RootSite(n, <<"Hello">>, f, FALSE) :
        n \in 1..MaxParagraphs, f \in {"none", "after"}}

Between == <<SP4, "title: ", "'", "T", "'", ",", NL>>

Docs ==
    {h \o s : h \in Headers,
              s \in {RootSite(1, <<"Hello">>, "none", TRUE), CallSite}}
        \cup {ImportLine \o s : s \in Sites}
        \cup {ImportLine \o a \o Between \o b : a \in PairSites, b \in PairSites}

(***************************************************************************)
(* The state.                                                              *)
(*   file              the text of the file on disk                        *)
(*   content           the text being rewritten (the local variable of     *)
(*                     process_file, the argument of a rule called alone)  *)
(*   original_content  the text process_file read                          *)
(*   fixes_applied     TestFileFixer.fixes_applied                         *)
(*   fix_types         the fix_types argument of the running process_file  *)
(*   pc                the position in process_file, "idle" outside it,    *)
(*                     "crashed" once the process was killed               *)
(*   returned          the value the last process_file returned            *)
(*   wrote             the last process_file wrote the file and closed it  *)
(*   error             the error a call ended with, "" while none did      *)
(*   ops               the operations started so far, oldest first         *)
(*   prev              the text before the last rewrite                    *)
(***************************************************************************)
VARIABLES file, content, original_content, fixes_applied, fix_types, pc,
          returned, wrote, error, ops, prev

vars == <<file, content, original_content, fixes_applied, fix_types, pc,
          returned, wrote, error, ops, prev>>

MaxCalls == 2
MaxSteps == 2

\* the choices of --fix-types
KnownFixTypes ==
    {"lexical-helper", "user-creation", "root-structures", "lexical-content"}

\* the fix_types arguments tried; <<>> stands for None and for the empty list
FixTypeArgs ==
    {<<>>, <<"lexical-content">>, <<"bogus">>, <<"lexical-helper", "bogus">>}

Elems(l) == {l[i] : i \in 1..Len(l)}

\* 'not fix_types or name in fix_types'
Requested(name) == fix_types = <<>> \/ name \in Elems(fix_types)

LastOp == IF ops = <<>> THEN "" ELSE ops[Len(ops)]

(***************************************************************************)
(* process_file, one step per rule, and main.                              *)
(***************************************************************************)
Init ==
    /\ file \in Docs
    /\ content = <<>>
    /\ original_content = <<>>
    /\ fixes_applied = <<>>
    /\ fix_types = <<>>
    /\ pc = "idle"
    /\ returned = FALSE
    /\ wrote = FALSE
    /\ error = ""
    /\ ops = <<>>
    /\ prev = <<>>

\* process_file up to 'self.fixes_applied = []'
ProcessFile(ft) ==
    /\ pc = "idle"
    /\ error = ""
    /\ Len(ops) < MaxCalls
    /\ content' = file
    /\ original_content' = file
    /\ fixes_applied' = <<>>
    /\ fix_types' = ft
    /\ pc' = "lexical-helper"
    /\ wrote' = FALSE
    /\ ops' = Append(ops, ft)
    /\ UNCHANGED <<file, returned, error, prev>>

\* a rule statement that records its fix whether or not the text changed
RuleStepAlwaysRecords(name, next, new, fix) ==
    /\ pc = name
    /\ pc' = next
    /\ prev' = content
    /\ IF Requested(name)
       THEN content' = new /\ fixes_applied' = Append(fixes_applied, fix)
       ELSE UNCHANGED <<content, fixes_applied>>
    /\ UNCHANGED <<file, original_content, fix_types, returned, wrote,
                   error, ops>>

\* one 'if not fix_types or ... in fix_types' statement of process_file
RuleStep(name, next, new, fix) ==
    /\ pc = name
    /\ pc' = next
    /\ prev' = content
    /\ IF Requested(name)
       THEN /\ content' = new
            /\ fixes_applied' =
                   IF new # content THEN Append(fixes_applied, fix)
                   ELSE fixes_applied
       ELSE UNCHANGED <<content, fixes_applied>>
    /\ UNCHANGED <<file, original_content, fix_types, returned, wrote,
                   error, ops>>

StepHelper ==
    RuleStep("lexical-helper", "user-creation", add_lexical_helper(content),
             "Added Lexical helper function")

StepUser ==
    RuleStep("user-creation", "root-structures", fix_user_creation(content),
             "Fixed user creation")

StepRoot ==
    RuleStep("root-structures", "lexical-content",
             fix_root_structures(content), "Fixed root structures")

StepLexical ==
    RuleStep("lexical-content", "persist", fix_lexical_content(content),
             "Fixed Lexical content structures")

\* 'if content != original_content' of process_file: open(filepath, 'w'),
\* which empties the file, when the text changed; 'return False' otherwise
Persist ==
    /\ pc = "persist"
    /\ IF content # original_content
       THEN file' = <<>> /\ pc' = "write" /\ UNCHANGED <<wrote, returned>>
       ELSE UNCHANGED file /\ pc' = "idle" /\ wrote' = FALSE
            /\ returned' = FALSE
    /\ UNCHANGED <<content, original_content, fixes_applied, fix_types,
                   error, ops, prev>>

\* f.write(content) under way: the first part of the text has reached the
\* disk, the rest has not yet
Flush ==
    /\ pc = "write"
    /\ file = <<>>
    /\ file' = SubSeq(content, 1, Len(content) \div 2)
    /\ UNCHANGED <<content, original_content, fixes_applied, fix_types, pc,
                   returned, wrote, error, ops, prev>>

\* the end of the with statement, which writes what is left and closes the
\* file, then 'return True'
WriteDone ==
    /\ pc = "write"
    /\ file' = content
    /\ wrote' = TRUE
    /\ returned' = TRUE
    /\ pc' = "idle"
    /\ UNCHANGED <<content, original_content, fixes_applied, fix_types,
                   error, ops, prev>>

\* the process is killed while process_file runs
Crash ==
    /\ pc \notin {"idle", "crashed"}
    /\ pc' = "crashed"
    /\ UNCHANGED <<file, content, original_content, fixes_applied, fix_types,
                   returned, wrote, error, ops, prev>>

\* main given --fix-types with a name that is not one of the choices:
\* parse_args reports the invalid choice and exits
MainArgError(ft) ==
    /\ pc = "idle"
    /\ error = ""
    /\ Len(ops) < MaxCalls
    /\ ~(Elems(ft) \subseteq KnownFixTypes)
    /\ error' = "invalid choice"
    /\ ops' = Append(ops, <<"main">> \o ft)
    /\ UNCHANGED <<file, content, original_content, fixes_applied, fix_types,
                   pc, returned, wrote, prev>>

\* a stand-alone script: read the file, rewrite, write the file
Script(name, new) ==
    /\ pc = "idle"
    /\ error = ""
    /\ Len(ops) < MaxCalls
    /\ prev' = file
    /\ file' = new
    /\ ops' = Append(ops, <<name>>)
    /\ UNCHANGED <<content, original_content, fixes_applied, fix_types, pc,
                   returned, wrote, error>>

RunFixBlogsContent == Script("fix_blogs_content.py", fix_blogs_content(file))

RunFixUserCreation == Script("fix_user_creation.py", fix_draft_removal(file))

Next ==
    \/ \E ft \in FixTypeArgs : ProcessFile(ft)
    \/ StepHelper
    \/ StepUser
    \/ StepRoot
    \/ StepLexical
    \/ Persist
    \/ Flush
    \/ WriteDone
    \/ Crash
    \/ \E ft \in FixTypeArgs : MainArgError(ft)
    \/ RunFixBlogsContent
    \/ RunFixUserCreation

Spec == Init /\ [][Next]_vars

(***************************************************************************)
(* The rewrites applied one at a time, in any order, to a text: the        *)
(* methods of a TestFileFixer called directly, and the re.sub of the two   *)
(* scripts.                                                                *)
(***************************************************************************)
RuleInit ==
    /\ content \in Docs
    /\ file = <<>>
    /\ original_content = <<>>
    /\ fixes_applied = <<>>
    /\ fix_types = <<>>
    /\ pc = "idle"
    /\ returned = FALSE
    /\ wrote = FALSE
    /\ error = ""
    /\ ops = <<>>
    /\ prev = <<>>

\* a rewrite called on content; fix: what it appends to fixes_applied when
\* record holds
Rewrite(name, new, record, fix) ==
    /\ Len(ops) < MaxSteps
    /\ prev' = content
    /\ content' = new
    /\ fixes_applied' = IF record THEN Append(fixes_applied, fix)
                        ELSE fixes_applied
    /\ ops' = Append(ops, name)
    /\ UNCHANGED <<file, original_content, fix_types, pc, returned, wrote,
                   error>>

CallAddLexicalHelper ==
    Rewrite("add_lexical_helper", add_lexical_helper(content),
            HelperInserted(content), "Added Lexical helper function")

CallFixUserCreation ==
    Rewrite("fix_user_creation", fix_user_creation(content),
            fix_user_creation(content) # content, "Fixed user creation")

CallFixRootStructures ==
    Rewrite("fix_root_structures", fix_root_structures(content),
            fix_root_structures(content) # content, "Fixed root structures")

CallFixLexicalContent ==
    Rewrite("fix_lexical_content", fix_lexical_content(content),
            fix_lexical_content(content) # content,
            "Fixed Lexical content structures")

BlogsContentRewrite ==
    Rewrite("fix_blogs_content", fix_blogs_content(content), FALSE, "")

DraftRemovalRewrite ==
    Rewrite("fix_draft_removal", fix_draft_removal(content), FALSE, "")

RuleNext ==
    \/ CallAddLexicalHelper
    \/ CallFixUserCreation
    \/ CallFixRootStructures
    \/ CallFixLexicalContent
    \/ BlogsContentRewrite
    \/ DraftRemovalRewrite

RuleSpec == RuleInit /\ [][RuleNext]_vars

(***************************************************************************)
(* What the properties speak of: the real structure of a text.  Strings    *)
(* are delimited by the quote tokens; the delimiters inside a string are   *)
(* text, the others are code.                                              *)
(***************************************************************************)
QuoteMarks == {"'", BQ}
Openers == {"{", "[", "("}
Closers == {"}", "]", ")"}
Closer(o) == CASE o = "{" -> "}" [] o = "[" -> "]" [] o = "(" -> ")"

\* position i of s is outside the strings of s
IsCode(s, i) == Cardinality({q \in 1..(i - 1) : s[q] \in QuoteMarks}) % 2 = 0

\* the position of the closing delimiter that matches the opening delimiter
\* at position open (nested delimiters of the same kind counted, strings
\* skipped), 0 when there is none
MatchDelimiter(s, open) ==
    LET os == {i \in open..Len(s) : s[i] = s[open] /\ IsCode(s, i)}
        cs == {i \in open..Len(s) : s[i] = Closer(s[open]) /\ IsCode(s, i)}
        closes == {j \in cs : Cardinality({i \in os : i < j})
                                  = Cardinality({i \in cs : i <= j})}
    IN IF closes = {} THEN 0 ELSE Min(closes)

\* the positions strictly between open and close that are not inside a
\* nested object, array or call
TopLevel(s, open, close) ==
    LET code == {i \in (open + 1)..(close - 1) : IsCode(s, i)}
        os == {i \in code : s[i] \in Openers}
        cs == {i \in code : s[i] \in Closers}
    IN {i \in code \ (os \cup cs) :
           Cardinality({o \in os : o < i}) = Cardinality({c \in cs : c < i})}

\* the k-th smallest element of S
Kth(S, k) == CHOOSE x \in S : Cardinality({y \in S : y < x}) = k - 1

\* Scanning a text for balance.  The summary of a piece of text is the
\* closing delimiters it leaves unmatched, then the opening delimiters it
\* leaves unmatched, and whether a closing delimiter met an opening
\* delimiter of another kind.
NoDelims == [cl |-> <<>>, op |-> <<>>, bad |-> FALSE]

RECURSIVE Cancel(_, _)
\* the opening delimiters op met by the closing delimiters cl that follow
Cancel(op, cl) ==
    IF op = <<>> \/ cl = <<>> THEN [cl |-> cl, op |-> op, bad |-> FALSE]
    ELSE IF Closer(op[Len(op)]) = cl[1]
         THEN Cancel(SubSeq(op, 1, Len(op) - 1), Tail(cl))
         ELSE [cl |-> cl, op |-> op, bad |-> TRUE]

Join(x, y) ==
    LET r == Cancel(x.op, y.cl)
    IN [cl |-> x.cl \o r.cl, op |-> r.op \o y.op,
        bad |-> x.bad \/ y.bad \/ r.bad]

RECURSIVE Scan(_, _, _)
\* the summary of s[a..b]: out when the piece starts outside a string, ins
\* when it starts inside one; flip: it holds an odd number of quote tokens
Scan(s, a, b) ==
    IF a > b THEN [flip |-> FALSE, out |-> NoDelims, ins |-> NoDelims]
    ELSE IF a = b
    THEN [flip |-> s[a] \in QuoteMarks,
          out |-> IF s[a] \in Openers THEN [NoDelims EXCEPT !.op = <<s[a]>>]
                  ELSE IF s[a] \in Closers
                       THEN [NoDelims EXCEPT !.cl = <<s[a]>>]
                       ELSE NoDelims,
          ins |-> NoDelims]
    ELSE LET mid == (a + b) \div 2
             l == Scan(s, a, mid)
             r == Scan(s, mid + 1, b)
         IN [flip |-> l.flip # r.flip,
             out |-> Join(l.out, IF l.flip THEN r.ins ELSE r.out),
             ins |-> Join(l.ins, IF l.flip THEN r.out ELSE r.ins)]

\* the braces, brackets and parentheses of s are balanced
Balanced(s) ==
    LET r == Scan(s, 1, Len(s)).out
    IN r.cl = <<>> /\ r.op = <<>> /\ ~r.bad

\* the number of each delimiter character in s, strings included
RawCount(s, d) == Cardinality({i \in 1..Len(s) : s[i] = d})

RawBalanced(s) == \A o \in Openers : RawCount(s, o) = RawCount(s, Closer(o))

\* root objects: the positions of the '{' of 'root: {'
RootOpens(s) == {i \in 2..Len(s) : s[i] = "{" /\ s[i - 1] = "root: "}

DirectionTokens == {"direction: null,"}
FormatTokens == {"format: '',", "format: '' as const,"}
IndentTokens == {"indent: 0,"}
VersionTokens == {"version: 1,"}
RequiredFields == {DirectionTokens, FormatTokens, IndentTokens, VersionTokens}

\* the top-level positions of the root object opened at open that hold a
\* field of F
FieldsAt(s, open, F) ==
    {i \in TopLevel(s, open, MatchDelimiter(s, open)) : s[i] \in F}

\* the position of the '[' of the children field of the root object
ChildrenOpen(s, open) ==
    LET cs == {i \in TopLevel(s, open, MatchDelimiter(s, open)) :
                  s[i] = "children: "}
    IN IF cs = {} THEN 0 ELSE Min(cs) + 1

\* the root object opened at open is root: { type: 'root', children: [...] }
\* with none of the four fields
LacksFields(s, open) ==
    /\ MatchDelimiter(s, open) # 0
    /\ ChildrenOpen(s, open) # 0
    /\ \E i \in TopLevel(s, open, MatchDelimiter(s, open)) :
           s[i] = "type: 'root',"
    /\ \A F \in RequiredFields : FieldsAt(s, open, F) = {}

\* the root object opened at open carries the four fields
HasFields(s, open) ==
    /\ MatchDelimiter(s, open) # 0
    /\ \A F \in RequiredFields : FieldsAt(s, open, F) # {}

\* each of the four fields is once in the root object opened at open, after
\* its children array, with nothing but them up to its closing brace
FixedOnce(s, open) ==
    LET close == MatchDelimiter(s, open)
        copen == ChildrenOpen(s, open)
        cclose == MatchDelimiter(s, copen)
        fields == UNION {FieldsAt(s, open, F) : F \in RequiredFields}
    IN /\ close # 0 /\ copen # 0 /\ cclose # 0
       /\ \A F \in RequiredFields : Cardinality(FieldsAt(s, open, F)) = 1
       /\ {i \in (cclose + 2)..(close - 1) : s[i] \notin Space} = fields

\* the shape fix_root_structures is written for: root: { type: 'root',
\* children: [ one or more { type: 'paragraph', version: 1, children: [...],
\* }, ], } followed by a closing brace
CanonicalRootPattern ==
    << Lits(<<"root: ", "{">>) \o <<WsStar>> \o Lits(<<"type: 'root',">>)
           \o <<WsStar>> >> \o RootPattern2

CanonicalRoot(s, open) == MatchAt(CanonicalRootPattern, s, open - 1) # <<>>

\* the declarations of the helper in s
Declarations(s) ==
    {i \in 1..(Len(s) - 1) :
        s[i] = "const " /\ s[i + 1] = "createLexicalContent"}

\* import statements: from 'import ' at the start of a line to the end of
\* the line that holds its 'from' clause
FromTokens == {"x from 'y'", " from 'y'"}

ImportStarts(s) ==
    {i \in 1..Len(s) : s[i] = "import " /\ (i = 1 \/ s[i - 1] = NL)}

ImportStop(s, i) ==
    LET from == Min({j \in i..Len(s) : s[j] \in FromTokens})
    IN Min({j \in from..Len(s) : s[j] = NL})

\* the number of tokens up to the end of the last import statement
LastImportEnd(s) == ImportStop(s, Max(ImportStarts(s)))

\* the number of tokens of prev before the text new inserted to give cur
InsertedAt(old, new, cur) ==
    Min({n \in 0..Len(old) :
            cur = SubSeq(old, 1, n) \o new \o SubSeq(old, n + 1, Len(old))})

\* the data objects of the users documents: the positions of their '{'
DataOpens(s) == {i \in 2..Len(s) : s[i] = "{" /\ s[i - 1] = "data: "}

UserKeys ==
    {"email: ", "firstName:", "lastName: 'User',", "password: 'test123',",
     "roles: "}

IsUserKey(t) == t \in UserKeys

\* the field names of the data object opened at open, in order
Keys(s, open) ==
    SelectSeq(SubSeq(s, open + 1, MatchDelimiter(s, open) - 1), IsUserKey)

\* the locator of fix_user_creation matches inside the data object
Located(s, open) ==
    \E p \in open..MatchDelimiter(s, open) :
        \/ MatchAt(UserPattern("test-"), s, p) # <<>>
        \/ MatchAt(UserPattern("another-"), s, p) # <<>>

(***************************************************************************)
(* The properties.                                                         *)
(***************************************************************************)
\* the last operation was a call of process_file, and it has returned
ProcessFileDone == pc = "idle" /\ ops # <<>> /\ LastOp = fix_types

\* C1: when process_file with all fix types is run on the output of a run
\* of process_file with all fix types, the text is unchanged, no fix is
\* recorded and the file is not written.
C1_SecondRunIsNoOp ==
    (pc = "idle" /\ ops = << <<>>, <<>> >>)
        => (content = original_content /\ fixes_applied = <<>> /\ ~wrote)

\* C10: a call of process_file whose fix_types holds a name that is not a
\* known fix type ends with an error, applies no rule and leaves the file
\* as it was.
C10_UnknownRuleRejected ==
    (ProcessFileDone /\ ~(Elems(fix_types) \subseteq KnownFixTypes))
        => (error # "" /\ fixes_applied = <<>> /\ ~wrote
            /\ file = original_content)

\* the matches a re.sub of the pattern replaces in the text s
Replaced(parts, s) == Elems(FindAll(parts, s, 1))

\* C2: the closing delimiter a rewrite pairs with an opening delimiter is
\* the one that matches it: the '}' of 'data: {' in the draft rewrite of
\* fix_user_creation, the ']' of 'children: [' in fix_root_structures, the
\* ']' of 'children: [' and the '}' of 'root: {' in fix_blogs_content.py.
C2_BoundaryMatching ==
    /\ LastOp = "fix_user_creation" =>
           \A m \in Replaced(DraftPattern, prev) :
               MatchDelimiter(prev, m[2] - 1) = m[3]
    /\ LastOp = "fix_root_structures" =>
           \A m \in Replaced(RootPattern, prev) :
               MatchDelimiter(prev, m[2] - 1) = m[3]
    /\ LastOp = "fix_blogs_content" =>
           \A m \in Replaced(BlogsPattern, prev) :
               /\ MatchDelimiter(prev, m[2] - 1) = m[3]
               /\ MatchDelimiter(prev, m[1] + 1) = m[4]

\* the root objects of the text before and after fix_root_structures, which
\* neither adds nor removes a root object
RootsKept == Cardinality(RootOpens(content)) = Cardinality(RootOpens(prev))

RootIndex == 1..Cardinality(RootOpens(prev))

C4_ConformantUntouched ==
    [][(ops' = Append(ops, "fix_root_structures")
          /\ RootOpens(content) # {}
          /\ \A o \in RootOpens(content) : HasFields(content, o))
        => (content' = content /\ fixes_applied' = fixes_applied)]_vars

\* C5: after add_lexical_helper the text holds exactly one declaration of
\* the helper, and add_lexical_helper again changes nothing.
C5_OneDeclaration ==
    LastOp = "add_lexical_helper" =>
        /\ Cardinality(Declarations(content)) = 1
        /\ add_lexical_helper(content) = content

\* C6: add_lexical_helper inserts the helper right after the end of the
\* last import statement.
C6_AfterLastImport ==
    (LastOp = "add_lexical_helper" /\ content # prev) =>
        InsertedAt(prev, helper_function, content) = LastImportEnd(prev)

DataIndex == 1..Cardinality(DataOpens(prev))

\* C7: after fix_user_creation a data object that held email, password and
\* roles and that the locator matched holds email, firstName, lastName,
\* password, roles, each once and in this order, and a second run changes
\* nothing.
C7_NamesInsertedOnce ==
    LastOp = "fix_user_creation" =>
        /\ Cardinality(DataOpens(content)) = Cardinality(DataOpens(prev))
        /\ \A k \in DataIndex :
               LET o == Kth(DataOpens(prev), k)
               IN (Keys(prev, o) = <<"email: ", "password: 'test123',", "roles: ">>
                     /\ Located(prev, o))
                  => /\ Keys(content, Kth(DataOpens(content), k))
                          = <<"email: ", "firstName:", "lastName: 'User',",
                              "password: 'test123',", "roles: ">>
                     /\ fix_user_creation(content) = content

\* the text of s outside its root objects: the pieces before, between and
\* after them, in order
Outside(s) ==
    LET n == Cardinality(RootOpens(s))
        close(k) == IF k = 0 THEN 0 ELSE MatchDelimiter(s, Kth(RootOpens(s), k))
        open(k) == IF k = n + 1 THEN Len(s) + 1 ELSE Kth(RootOpens(s), k)
    IN [k \in 1..(n + 1) |-> SubSeq(s, close(k - 1) + 1, open(k) - 1)]

TwoSites ==
    /\ Cardinality(RootOpens(prev)) = 2
    /\ \A o \in RootOpens(prev) : CanonicalRoot(prev, o)

C9_BalancePreserved ==
    ops # <<>> =>
        /\ Balanced(prev) => Balanced(content)
        /\ RawBalanced(prev) => RawBalanced(content)

C9_Witness ==
    /\ Len(ops) = MaxSteps
    /\ content # prev
    /\ Balanced(prev)
    /\ \E i \in 1..Len(content) : content[i] \in Closers /\ ~IsCode(content, i)

\* C11: when process_file has returned, the file was written exactly when
\* the text after the requested rules differs from the text read, True was
\* returned exactly then, the file holds the text the call ended with, and
\* fixes_applied names a rule exactly when the text differs.
C11_PersistOnlyOnChange ==
    ProcessFileDone =>
        /\ wrote <=> content # original_content
        /\ returned <=> wrote
        /\ file = content
        /\ fixes_applied # <<>> <=> content # original_content

C11_Witness ==
    /\ ProcessFileDone
    /\ wrote
    /\ returned
    /\ Len(fixes_applied) >= 2

\* C12: once the process was killed during process_file, the file holds the
\* whole text that was read or the whole text the rules gave.
C12_AtomicPersist ==
    pc = "crashed" => file \in {original_content, content}

\* C13: when process_file has returned and fix_lexical_content rewrote a
\* site into a call of createLexicalContent, the text holds the declaration
\* of the helper.
C13_HelperDeclared ==
    (ProcessFileDone
       /\ "Fixed Lexical content structures" \in Elems(fixes_applied))
        => Declarations(file) # {}

====
